---- MODULE Spec2Model ----
(***************************************************************************)
(* Model of the arbitrage spread analyzer (arbitrage-analyzer-rust,        *)
(* src/main.rs): the order-book store, the fee model, the evaluator, the   *)
(* two scan modes and the receive-process loop of SpreadAnalyzer::run.     *)
(*                                                                         *)
(* Representation.                                                         *)
(*   Strings the code takes apart (exchange ids, pairs, store keys) are    *)
(*   sequences of one-character strings, so that replace, contains, split  *)
(*   and format! are computed character by character.                      *)
(*   f64 quantities are fixed-point integers:                              *)
(*     prices                 in 1e-4 USD      (30000.0  is 300000000)     *)
(*     sizes                  in 1e-2 units    (1.0      is 100)           *)
(*     money (fees, profit)   in 1e-6 USD      (1.0      is 1000000)       *)
(*     percentage fees        in 1e-2 percent  (0.1 %    is 10)            *)
(*     withdrawal fees        in 1e-4 per unit (0.0005   is 5)             *)
(*     roi_percentage         in 1e-4 percent  (0.1 %    is 1000), floored *)
(*   With these units size*fee/100, withdrawal_fee*size and                *)
(*   gross_profit_per_unit*size are exact integer products.  Prices are    *)
(*   positive and sizes are multiples of 0.05 in every modelled input.     *)
(*   The transport delivers the snapshots of Snapshots: five markets on    *)
(*   three venues, two canonical pairs.                                    *)
(***************************************************************************)
EXTENDS Integers, Sequences, FiniteSets, TLC

VARIABLES
    books,          \* SpreadAnalyzer.books: store key -> OrderBook
    fees_config,    \* SpreadAnalyzer.fees_config
    update_counter, \* run: let mut update_counter
    pc,             \* run: "loop" while the loop runs, "returned" after run returned Err, "panicked"
                    \* after a panic; "eval" where evaluate_opportunity is called on its own
    outcome,        \* what the last iteration of the loop did
    updated_key,    \* run: book_key of the last iteration (<<>> when no book was stored)
    opportunities,  \* run: let opportunities of the last iteration
    ingested,       \* history: number of snapshots stored so far
    last,           \* history: <<exchange, pair>> -> the snapshot stored last for them
    evalIn,         \* arguments of a direct call of evaluate_opportunity
    evalOut         \* whether the call was made (done) and its result: <<>> for None, <<opp>> for Some(opp)

vars == <<books, fees_config, update_counter, pc, outcome, updated_key,
          opportunities, ingested, last, evalIn, evalOut>>

---------------------------------------------------------------------------
(* Bounds of the model *)

\* successful updates the loop processes before the model stops feeding it
MaxUpdates == 11

---------------------------------------------------------------------------
(* Strings as character sequences *)

S_WBTC == <<"W","B","T","C">>
S_BTC == <<"B","T","C">>
S_ETH == <<"E","T","H">>
S_USDT == <<"U","S","D","T">>
S_USD == <<"U","S","D">>
S_SLASH == <<"/">>
S_COLON == <<":">>

BINANCE == <<"b","i","n","a","n","c","e">>
UNISWAP == <<"u","n","i","s","w","a","p","-","v","3","-","e","x","a","c","t">>
KRAKEN == <<"k","r","a","k","e","n">>

\* str::contains
Contains(s, pat) ==
    \E i \in 1..(Len(s) - Len(pat) + 1) : SubSeq(s, i, i + Len(pat) - 1) = pat

\* str::replace: every non-overlapping match, left to right
RECURSIVE Replace(_, _, _)
Replace(s, from, to) ==
    IF Len(s) < Len(from) \/ Len(from) = 0 THEN s
    ELSE IF SubSeq(s, 1, Len(from)) = from
         THEN to \o Replace(SubSeq(s, Len(from) + 1, Len(s)), from, to)
         ELSE <<s[1]>> \o Replace(Tail(s), from, to)

\* pair.split("/").next(): the text before the first separator (all of it when there is none)
RECURSIVE SplitFirst(_, _)
SplitFirst(s, sep) ==
    IF s = <<>> \/ <<s[1]>> = sep THEN <<>>
    ELSE <<s[1]>> \o SplitFirst(Tail(s), sep)

\* pair.chars().take(n).collect()
Take(s, n) == SubSeq(s, 1, IF Len(s) < n THEN Len(s) ELSE n)

---------------------------------------------------------------------------
(* Fixed-point arithmetic *)

Min(a, b) == IF a <= b THEN a ELSE b

\* TLC's integers are 32 bits wide, so a quotient a*b/c is computed without forming a*b.
\* <<q, r>> with x = q*c + r and 0 <= r < c  becomes  <<q', r'>> with x*m = q'*c + r',
\* for a small factor m ((c-1)*m < 2^31)
Scale(qr, m, c) == <<qr[1] * m + (qr[2] * m) \div c, (qr[2] * m) % c>>

RECURSIVE ScaleAll(_, _, _)
ScaleAll(qr, factors, c) ==
    IF factors = <<>> THEN qr
    ELSE ScaleAll(Scale(qr, Head(factors), c), Tail(factors), c)

\* floor(a * m1 * ... * mk / c) for factors = <<m1, ..., mk>>, any integer a and c > 0
MulDiv(a, factors, c) == ScaleAll(<<a \div c, a % c>>, factors, c)[1]

---------------------------------------------------------------------------
(* Configuration *)

MIN_ABSOLUTE_PROFIT == 1000000

MIN_ROI_PERCENTAGE == 1000

\* FeesConfig::default(), as main leaves it
DefaultFeesConfig ==
    [ binance_taker_fee |-> 10,
      binance_maker_fee |-> 10,
      uniswap_fee       |-> 30,
      ethereum_gas_cost |-> 50000000,
      withdrawal_fees   |-> (S_BTC :> 5) @@ (S_WBTC :> 5) @@ (S_ETH :> 50) @@ (S_USDT :> 100000),
      use_market_orders |-> TRUE ]

\* the hardcoded fee of a venue that is neither binance nor uniswap-v3-exact: 0.15 %
DEFAULT_VENUE_FEE == 15

---------------------------------------------------------------------------
(* FeeModel: SpreadAnalyzer::estimate_fees_and_gas *)

\* the base currency extracted from the pair
BaseCurrency(pair) ==
    IF Contains(pair, S_SLASH) THEN SplitFirst(pair, S_SLASH)
    ELSE IF Contains(pair, S_USDT) THEN Replace(pair, S_USDT, <<>>)
    ELSE IF Contains(pair, S_USD) THEN Replace(pair, S_USD, <<>>)
    ELSE Take(pair, 4)

\* one leg's contribution (the match on buy_exchange, and the same match on sell_exchange)
VenueFee(fc, exchange, size) ==
    IF exchange = BINANCE THEN size * fc.binance_taker_fee
    ELSE IF exchange = UNISWAP THEN size * fc.uniswap_fee + fc.ethereum_gas_cost
    ELSE size * DEFAULT_VENUE_FEE

\* the withdrawal fee, charged per unit of size, looked up after WBTC -> BTC
WithdrawalFee(fc, size, pair) ==
    LET fee_lookup_currency == Replace(BaseCurrency(pair), S_WBTC, S_BTC)
    IN  IF fee_lookup_currency \in DOMAIN fc.withdrawal_fees
        THEN fc.withdrawal_fees[fee_lookup_currency] * size
        ELSE 0

estimate_fees_and_gas(fc, size, buy_exchange, sell_exchange, pair) ==
    VenueFee(fc, buy_exchange, size) + VenueFee(fc, sell_exchange, size)
        + WithdrawalFee(fc, size, pair)

---------------------------------------------------------------------------
(* PairNormalizer: SpreadAnalyzer::normalize_pair_symbols *)

\* the canonical pair: pair.replace("WBTC", "BTC")
Canonical(pair) == Replace(pair, S_WBTC, S_BTC)

\* price_adjustment as a multiple of 1e-4: 0.9999 when either pair mentions WBTC, else 1.0
PRICE_ADJ_WRAPPED == 9999

PRICE_ADJ_NONE == 10000

normalize_pair_symbols(pair1, pair2) ==
    << Canonical(pair1), Canonical(pair2),
       IF Contains(pair1, S_WBTC) \/ Contains(pair2, S_WBTC)
       THEN PRICE_ADJ_WRAPPED ELSE PRICE_ADJ_NONE >>

\* price * price_adjustment
AdjustPrice(price, adj) == MulDiv(price, <<adj>>, PRICE_ADJ_NONE)

---------------------------------------------------------------------------
(* Sizing policy: SpreadAnalyzer::choose_execution_size *)

CONSERVATIVE_PERCENT == 80

MAX_USD_SIZE == 100000

REFERENCE_PRICE == 50000

choose_execution_size(ask_size, bid_size) ==
    LET max_possible == Min(ask_size, bid_size)
        conservative_size == (max_possible * CONSERVATIVE_PERCENT) \div 100
        reasonable_max == (MAX_USD_SIZE * 100) \div REFERENCE_PRICE
    IN  Min(conservative_size, reasonable_max)

---------------------------------------------------------------------------
(* OpportunityEvaluator: SpreadAnalyzer::evaluate_opportunity *)

\* 10^6 = 5^6 * 4^3: money (1e-6) over price (1e-4) times size (1e-2), times 100 percent,
\* in units of 1e-4 percent
RoiScale == <<5, 5, 5, 5, 5, 5, 4, 4, 4>>

\* (net_profit / (buy_price * max_size)) * 100, for buy_price > 0 and max_size > 0
RoiPercentage(net_profit, buy_price, max_size) ==
    MulDiv(net_profit, RoiScale, buy_price) \div max_size

\* a variant that rejects only when both thresholds fail
BelowBothThresholds(net_profit, roi_percentage) ==
    net_profit < MIN_ABSOLUTE_PROFIT /\ roi_percentage < MIN_ROI_PERCENTAGE

\* the profitability thresholds: the candidate is rejected when either one fails
BelowThresholds(net_profit, roi_percentage) ==
    net_profit < MIN_ABSOLUTE_PROFIT \/ roi_percentage < MIN_ROI_PERCENTAGE

\* no positive spread
NoSpread(buy_price, sell_price) == sell_price <= buy_price

\* <<>> for None, <<opp>> for Some(opp); id and timestamp (a fresh uuid, the clock) are left out
evaluate_opportunity(fc, buy_exchange, sell_exchange, pair, buy_price, sell_price, buy_size, sell_size) ==
    IF NoSpread(buy_price, sell_price) THEN <<>>
    ELSE LET max_size == choose_execution_size(buy_size, sell_size)
         IN  IF max_size <= 0 THEN <<>>
             ELSE LET gross_profit_per_unit == sell_price - buy_price
                      estimated_fees == estimate_fees_and_gas(fc, max_size, buy_exchange, sell_exchange, pair)
                      gross_profit == gross_profit_per_unit * max_size
                      net_profit == gross_profit - estimated_fees
                      roi_percentage == RoiPercentage(net_profit, buy_price, max_size)
                  IN  IF BelowThresholds(net_profit, roi_percentage) THEN <<>>
                      ELSE << [ buy_exchange          |-> buy_exchange,
                                sell_exchange         |-> sell_exchange,
                                pair                  |-> pair,
                                buy_price             |-> buy_price,
                                sell_price            |-> sell_price,
                                max_size              |-> max_size,
                                gross_profit_per_unit |-> gross_profit_per_unit,
                                estimated_fees        |-> estimated_fees,
                                net_profit            |-> net_profit,
                                roi_percentage        |-> roi_percentage ] >>

---------------------------------------------------------------------------
(* BookStore: SpreadAnalyzer.books and SpreadAnalyzer::group_books_by_pair *)

\* format!("{}:{}", orderbook.exchange, orderbook.pair)
BookKey(exchange, pair) == exchange \o S_COLON \o pair

\* a variant that keeps the entry a key already has
InsertIfAbsent(bks, key, ob) ==
    [k \in (DOMAIN bks) \cup {key} |-> IF k \in DOMAIN bks THEN bks[k] ELSE ob]

\* self.books.insert(book_key, orderbook)
Upsert(bks, key, ob) ==
    [k \in (DOMAIN bks) \cup {key} |-> IF k = key THEN ob ELSE bks[k]]

\* the orders in which a HashMap holding the keys S may enumerate them: any
IterationOrders(S) ==
    {f \in [1..Cardinality(S) -> S] : \A i, j \in 1..Cardinality(S) : f[i] = f[j] => i = j}

\* the canonical pairs of the held books: the keys of the grouping
GroupNames(bks) == {Canonical(bks[k].pair) : k \in DOMAIN bks}

\* the keys of the books whose normalized pair is p
Members(bks, p) == {k \in DOMAIN bks : Canonical(bks[k].pair) = p}

\* the groupings of the pairs in names: each pair with its keys in some order
RECURSIVE Groupings(_, _)
Groupings(bks, names) ==
    IF names = {} THEN {<<>>}
    ELSE LET p == CHOOSE q \in names : TRUE
         IN  {(p :> members) @@ g : members \in IterationOrders(Members(bks, p)),
                                    g \in Groupings(bks, names \ {p})}

\* canonical pair -> the keys of its books, pushed in the iteration order of self.books.
\* That order is any, so the function has one possible value for each choice of an
\* order within every group: the set of these values
group_books_by_pair(bks) == Groupings(bks, GroupNames(bks))

---------------------------------------------------------------------------
(* SpreadAnalysisDriver: analyze_all_spreads and analyze_spread *)

\* a variant without the same-exchange skip
NeverSameExchange(book1, book2) == FALSE

\* a variant without the empty-side skip
NeverEmptySide(book1, book2) == FALSE

\* Skip if same exchange
SameExchange(book1, book2) == book1.exchange = book2.exchange

\* Ensure both books have valid data
HasEmptySide(book1, book2) ==
    book1.bids = <<>> \/ book1.asks = <<>> \/ book2.bids = <<>> \/ book2.asks = <<>>

\* the body of the inner loop for books[i], books[j]: the opportunities it pushes,
\* or a panic when asks[0] or bids[0] is indexed on an empty Vec
ComparePair(fc, normalized_pair, book1, book2) ==
    IF SameExchange(book1, book2) THEN [panic |-> FALSE, opps |-> <<>>]
    ELSE IF HasEmptySide(book1, book2) THEN [panic |-> FALSE, opps |-> <<>>]
    ELSE IF book1.asks = <<>> \/ book2.bids = <<>> THEN [panic |-> TRUE, opps |-> <<>>]
    ELSE LET price_adjustment == normalize_pair_symbols(book1.pair, book2.pair)[3]
             buy_price1 == AdjustPrice(book1.asks[1][1], price_adjustment)
             buy_size1 == book1.asks[1][2]
             sell_price2 == book2.bids[1][1]
             sell_size2 == book2.bids[1][2]
         IN  [ panic |-> FALSE,
               opps  |-> evaluate_opportunity(fc, book1.exchange, book2.exchange, normalized_pair,
                                              buy_price1, sell_price2, buy_size1, sell_size2) ]

\* one step of a loop followed by the rest of it: a panic ends the scan,
\* otherwise the opportunities pushed so far are followed by the later ones
AndThen(here, rest) ==
    IF here.panic THEN here
    ELSE [panic |-> rest.panic, opps |-> here.opps \o rest.opps]

\* for i in 0..len { for j in (i+1)..len { ... } } over one group, from (i, j) on
RECURSIVE GroupOpps(_, _, _, _, _, _)
GroupOpps(fc, bks, normalized_pair, g, i, j) ==
    IF i > Len(g) THEN [panic |-> FALSE, opps |-> <<>>]
    ELSE IF j > Len(g) THEN GroupOpps(fc, bks, normalized_pair, g, i + 1, i + 2)
    ELSE AndThen(ComparePair(fc, normalized_pair, bks[g[i]], bks[g[j]]),
                 GroupOpps(fc, bks, normalized_pair, g, i, j + 1))

\* books.len() < 1: the guard on a group (a group is never empty)
SkipGroup(g) == Len(g) < 1

\* for (normalized_pair, books) in grouped_books, gorder being the iteration order of grouped_books
RECURSIVE AllOpps(_, _, _, _, _)
AllOpps(fc, bks, grouped, gorder, n) ==
    IF n > Len(gorder) THEN [panic |-> FALSE, opps |-> <<>>]
    ELSE AndThen(IF SkipGroup(grouped[gorder[n]]) THEN [panic |-> FALSE, opps |-> <<>>]
                 ELSE GroupOpps(fc, bks, gorder[n], grouped[gorder[n]], 1, 2),
                 AllOpps(fc, bks, grouped, gorder, n + 1))

\* a variant comparator that sorts by ascending ROI
RoiAscending(a, b) == a.roi_percentage <= b.roi_percentage

\* the comparator of the sort: b.roi_percentage.partial_cmp(&a.roi_percentage) is not Greater,
\* i.e. a may stay before b
RoiOrdered(a, b) == a.roi_percentage >= b.roi_percentage

\* Vec::sort_by (stable): x goes after the elements that may stay before it
InsertByRoi(sorted, x) ==
    LET n == Cardinality({i \in 1..Len(sorted) : RoiOrdered(sorted[i], x)})
    IN  SubSeq(sorted, 1, n) \o <<x>> \o SubSeq(sorted, n + 1, Len(sorted))

RECURSIVE SortByRoi(_)
SortByRoi(opps) ==
    IF opps = <<>> THEN <<>>
    ELSE InsertByRoi(SortByRoi(SubSeq(opps, 1, Len(opps) - 1)), opps[Len(opps)])

\* the end of analyze_all_spreads: sort all_opportunities and return Ok, unless a panic unwound
SortedResult(all) ==
    IF all.panic THEN [status |-> "panic", opps |-> <<>>]
    ELSE [status |-> "ok", opps |-> SortByRoi(all.opps)]

\* status "ok" with the sorted list, or "panic"; grouped is the value group_books_by_pair
\* returned and gorder the order in which the for loop enumerates it
analyze_all_spreads(fc, bks, grouped, gorder) ==
    SortedResult(AllOpps(fc, bks, grouped, gorder, 1))

\* a variant filter that keeps every opportunity
InvolvesAnything(opp, exchange) == TRUE

\* the filter of analyze_spread
InvolvesExchange(opp, exchange) ==
    opp.buy_exchange = exchange \/ opp.sell_exchange = exchange

\* analyze_spread after its call of analyze_all_spreads: look the updated book up
\* (Err when it is not held) and keep the opportunities that pass the filter
FilterUpdated(all, bks, key) ==
    IF all.status = "panic" THEN all
    ELSE IF key \notin DOMAIN bks THEN [status |-> "err", opps |-> <<>>]
    ELSE [ status |-> "ok",
           opps   |-> SelectSeq(all.opps, LAMBDA opp : InvolvesExchange(opp, bks[key].exchange)) ]

\* status "ok" with the filtered list, "err" (Orderbook not found), or "panic"
analyze_spread(fc, bks, grouped, gorder, key) ==
    FilterUpdated(analyze_all_spreads(fc, bks, grouped, gorder), bks, key)

---------------------------------------------------------------------------
(* The snapshots the transport may deliver *)

BTC_USDT == S_BTC \o S_SLASH \o S_USDT
WBTC_USDT == S_WBTC \o S_SLASH \o S_USDT
ETH_USDT == S_ETH \o S_SLASH \o S_USDT

\* a price in USD, a size in units
Usd(x) == x * 10000
Units(x) == x * 100

OrderBook(exchange, pair, bids, asks, timestamp) ==
    [exchange |-> exchange, pair |-> pair, bids |-> bids, asks |-> asks, timestamp |-> timestamp]

\* a low and a high quote of the BTC market and of the ETH market, best level first
BtcLowBids == << <<Usd(29990), Units(1)>> >>
BtcLowAsks == << <<Usd(30000), Units(1)>> >>
BtcHighBids == << <<Usd(30200), Units(1)>>, <<Usd(30190), Units(2)>> >>
BtcHighAsks == << <<Usd(30210), Units(1)>> >>
EthLowBids == << <<Usd(1990), Units(1)>> >>
EthLowAsks == << <<Usd(2000), Units(1)>> >>
EthHighBids == << <<Usd(2100), Units(1)>> >>
EthHighAsks == << <<Usd(2110), Units(1)>> >>

Snapshots ==
    { OrderBook(BINANCE, BTC_USDT, BtcLowBids, BtcLowAsks, 1),
      OrderBook(BINANCE, BTC_USDT, BtcHighBids, BtcHighAsks, 2),
      OrderBook(BINANCE, BTC_USDT, BtcHighBids, <<>>, 3),
      OrderBook(BINANCE, WBTC_USDT, BtcLowBids, BtcLowAsks, 1),
      OrderBook(KRAKEN, BTC_USDT, BtcHighBids, BtcHighAsks, 2),
      OrderBook(KRAKEN, ETH_USDT, EthLowBids, EthLowAsks, 1),
      OrderBook(UNISWAP, ETH_USDT, EthHighBids, EthHighAsks, 2) }

---------------------------------------------------------------------------
(* The receive-process loop: SpreadAnalyzer::run *)

COMPREHENSIVE_ANALYSIS_INTERVAL == 10

\* a variant that tests the counter before its increment
IsComprehensiveBefore(counter) == (counter - 1) % COMPREHENSIVE_ANALYSIS_INTERVAL = 0

\* update_counter % COMPREHENSIVE_ANALYSIS_INTERVAL == 0
IsComprehensive(counter) == counter % COMPREHENSIVE_ANALYSIS_INTERVAL = 0

NoEval == [done |-> FALSE, result |-> <<>>]

NoInput ==
    [ buy_exchange |-> <<>>, sell_exchange |-> <<>>, pair |-> <<>>,
      buy_price |-> 0, sell_price |-> 0, buy_size |-> 0, sell_size |-> 0 ]

\* SpreadAnalyzer::new and the start of run: an empty store, the default fees, the counter at 0
Init ==
    /\ books = <<>>
    /\ fees_config = DefaultFeesConfig
    /\ update_counter = 0
    /\ pc = "loop"
    /\ outcome = "none"
    /\ updated_key = <<>>
    /\ opportunities = <<>>
    /\ ingested = 0
    /\ last = <<>>
    /\ evalIn = NoInput
    /\ evalOut = NoEval

\* a variant in which an abandoned iteration still advances the counter
AbandonCounted(what, next_pc) ==
    /\ pc = "loop"
    /\ pc' = next_pc
    /\ outcome' = what
    /\ updated_key' = <<>>
    /\ opportunities' = <<>>
    /\ update_counter' = update_counter + 1
    /\ UNCHANGED <<books, fees_config, ingested, last, evalIn, evalOut>>

\* an iteration that stores nothing and runs no scan; run goes on (continue) or returns Err (?)
Abandon(what, next_pc) ==
    /\ pc = "loop"
    /\ pc' = next_pc
    /\ outcome' = what
    /\ updated_key' = <<>>
    /\ opportunities' = <<>>
    /\ UNCHANGED <<books, fees_config, update_counter, ingested, last, evalIn, evalOut>>

\* pubsub.get_message()? or msg.get_payload()? fails: run returns the error
RecvFail == Abandon("recv_err", "returned")

\* self.redis_client.get_connection()? fails inside the loop: run returns the error
ConnFail == Abandon("conn_err", "returned")

\* redis_con.get(&key) fails: logged, continue
FetchFail == Abandon("fetch_err", "loop")

\* serde_json::from_str(&json_data) fails: logged, continue
DecodeFail == Abandon("decode_err", "loop")

\* where run is after a scan that ended with the given status (? on Err, unwinding on a panic)
AfterScan(status) ==
    IF status = "ok" THEN "loop" ELSE IF status = "err" THEN "returned" ELSE "panicked"

\* let opportunities = ...?: the scan's list is reported, or run ends
Report(res) ==
    /\ opportunities' = res.opps
    /\ pc' = AfterScan(res.status)

\* the snapshot ob was fetched and decoded: store it, count it, run one scan.
\* grouped and gorder are what the scan's HashMaps yield.
Store(ob, book_key, grouped, gorder) ==
    /\ books' = Upsert(books, book_key, ob)
    /\ update_counter' = update_counter + 1
    /\ updated_key' = book_key
    /\ outcome' = IF IsComprehensive(update_counter') THEN "full" ELSE "targeted"
    /\ \E res \in { IF IsComprehensive(update_counter')
                    THEN analyze_all_spreads(fees_config, books', grouped, gorder)
                    ELSE analyze_spread(fees_config, books', grouped, gorder, book_key) } :
         Report(res)
    /\ ingested' = ingested + 1
    /\ last' = [m \in DOMAIN last \cup {<<ob.exchange, ob.pair>>} |->
                    IF m = <<ob.exchange, ob.pair>> THEN ob ELSE last[m]]

Update ==
    /\ pc = "loop"
    /\ update_counter < MaxUpdates
    /\ \E ob \in Snapshots :
         \E grouped \in group_books_by_pair(Upsert(books, BookKey(ob.exchange, ob.pair), ob)) :
         \E gorder \in IterationOrders(DOMAIN grouped) :
           Store(ob, BookKey(ob.exchange, ob.pair), grouped, gorder)
    /\ UNCHANGED <<fees_config, evalIn, evalOut>>

Next == RecvFail \/ ConnFail \/ FetchFail \/ DecodeFail \/ Update

Spec == Init /\ [][Next]_vars

---------------------------------------------------------------------------
(* evaluate_opportunity on its own: one call on inputs drawn from bounded sets *)

ETHUSDT == S_ETH \o S_USDT
LINK == <<"L", "I", "N", "K">>

\* a fee configuration with 0.1 % on both venues, no gas and no BTC withdrawal fee
ScenarioFeesConfig ==
    [ binance_taker_fee |-> 10,
      binance_maker_fee |-> 10,
      uniswap_fee       |-> 10,
      ethereum_gas_cost |-> 0,
      withdrawal_fees   |-> (S_ETH :> 50) @@ (S_USDT :> 100000),
      use_market_orders |-> TRUE ]

EvalConfigs == {DefaultFeesConfig, ScenarioFeesConfig}
EvalExchanges == {BINANCE, UNISWAP, KRAKEN}
EvalPairs == {BTC_USDT, WBTC_USDT, ETHUSDT, LINK}

\* <<buy_price, sell_price>>: wide, equal, inverted, narrow and cheap spreads
EvalPrices ==
    { <<Usd(30000), Usd(30200)>>, <<Usd(30000), Usd(30000)>>, <<Usd(30200), Usd(30000)>>,
      <<Usd(30000), Usd(30020)>>, <<Usd(10), Usd(11)>>, <<Usd(29997), Usd(30200)>> }

EvalSizes == {0, 10, Units(1), Units(3)}

InitEval ==
    /\ books = <<>>
    /\ fees_config \in EvalConfigs
    /\ update_counter = 0
    /\ pc = "eval"
    /\ outcome = "none"
    /\ updated_key = <<>>
    /\ opportunities = <<>>
    /\ ingested = 0
    /\ last = <<>>
    /\ \E be \in EvalExchanges, se \in EvalExchanges, p \in EvalPairs,
          pr \in EvalPrices, bs \in EvalSizes, ss \in EvalSizes :
         evalIn = [ buy_exchange |-> be, sell_exchange |-> se, pair |-> p,
                    buy_price |-> pr[1], sell_price |-> pr[2],
                    buy_size |-> bs, sell_size |-> ss ]
    /\ evalOut = NoEval

\* one call of evaluate_opportunity on the drawn input
Evaluate ==
    /\ pc = "eval"
    /\ ~evalOut.done
    /\ evalOut' = [ done   |-> TRUE,
                    result |-> evaluate_opportunity(fees_config, evalIn.buy_exchange,
                                   evalIn.sell_exchange, evalIn.pair, evalIn.buy_price,
                                   evalIn.sell_price, evalIn.buy_size, evalIn.sell_size) ]
    /\ UNCHANGED <<books, fees_config, update_counter, pc, outcome, updated_key,
                   opportunities, ingested, last, evalIn>>

NextEval == Evaluate

SpecEval == InitEval /\ [][NextEval]_vars

---------------------------------------------------------------------------
(* Properties of the loop, of the store and of the scans *)

\* the last iteration stored a snapshot and ran a scan
ScanRan == outcome \in {"full", "targeted"}

\* the last iteration ended in a failure of receive, connect, fetch or decode
IterationFailed == outcome \in {"recv_err", "conn_err", "fetch_err", "decode_err"}

\* a book with at least one bid and one ask
Valid(ob) == ob.bids # <<>> /\ ob.asks # <<>>

SamePair(b1, b2) == Canonical(b1.pair) = Canonical(b2.pair)

\* the best ask of buyBook as the scan adjusts it against sellBook
AdjustedAsk(buyBook, sellBook) ==
    AdjustPrice(buyBook.asks[1][1], normalize_pair_symbols(buyBook.pair, sellBook.pair)[3])

\* two valid books of one canonical pair on different venues, bestBid(sellBook)
\* above the adjusted bestAsk(buyBook)
Crossing(buyBook, sellBook) ==
    /\ SamePair(buyBook, sellBook)
    /\ buyBook.exchange # sellBook.exchange
    /\ Valid(buyBook) /\ Valid(sellBook)
    /\ sellBook.bids[1][1] > AdjustedAsk(buyBook, sellBook)

\* the evaluation of buying on buyBook and selling on sellBook
Directed(buyBook, sellBook) ==
    evaluate_opportunity(fees_config, buyBook.exchange, sellBook.exchange,
                         Canonical(buyBook.pair), AdjustedAsk(buyBook, sellBook),
                         sellBook.bids[1][1], buyBook.asks[1][2], sellBook.bids[1][2])

Reported(opp) == \E i \in 1..Len(opportunities) : opportunities[i] = opp

\* C1: a failure of one iteration (message receive, payload, connection, fetch,
\* decode) is never the end of the loop: after it the loop is still running.
C1_FailureNeverEndsLoop == IterationFailed => pc = "loop"

\* C2: after a full scan of a store that holds two books only, of one canonical
\* pair on different venues and with crossing quotes (bestBid(sellBook) > adjusted
\* bestAsk(buyBook)), the buy-on-buyBook / sell-on-sellBook direction was evaluated
\* whichever book was enumerated first: its opportunity is reported when the
\* thresholds pass, and none is reported when one fails.
C2_BothDirections ==
    (outcome = "full" /\ pc = "loop" /\ Cardinality(DOMAIN books) = 2) =>
        \A kb \in DOMAIN books : \A ks \in DOMAIN books :
            Crossing(books[kb], books[ks]) =>
                IF Directed(books[kb], books[ks]) # <<>>
                THEN Reported(Directed(books[kb], books[ks])[1])
                ELSE \A i \in 1..Len(opportunities) :
                        ~ /\ opportunities[i].buy_exchange = books[kb].exchange
                          /\ opportunities[i].sell_exchange = books[ks].exchange
                          /\ opportunities[i].buy_price = AdjustedAsk(books[kb], books[ks])
                          /\ opportunities[i].sell_price = books[ks].bids[1][1]

\* C3 as stated: after a targeted scan every reported opportunity sells on the
\* updated book's venue and buys on another venue.
C3_UpdatedIsSellSide ==
    (outcome = "targeted" /\ pc = "loop") =>
        \A i \in 1..Len(opportunities) :
            /\ opportunities[i].sell_exchange = books[updated_key].exchange
            /\ opportunities[i].buy_exchange # books[updated_key].exchange

\* C3 amended: after a targeted scan every reported opportunity has the updated
\* book's venue as its buy side or as its sell side.
C3_UpdatedIsOneSide ==
    (outcome = "targeted" /\ pc = "loop") =>
        \A i \in 1..Len(opportunities) :
            \/ opportunities[i].buy_exchange = books[updated_key].exchange
            \/ opportunities[i].sell_exchange = books[updated_key].exchange

\* a targeted scan reported an opportunity that buys on the updated book's venue
C3_Witness ==
    /\ outcome = "targeted" /\ pc = "loop"
    /\ \E i \in 1..Len(opportunities) :
         opportunities[i].buy_exchange = books[updated_key].exchange

\* the venues that hold a book of the canonical pair p
Venues(p) == {books[k].exchange : k \in Members(books, p)}

\* C4: every reported opportunity has buy_exchange # sell_exchange, and its pair is
\* held by at least two venues: the books of a canonical pair held by one venue
\* only are compared with nothing and yield no opportunity.
C4_NeverSameVenue ==
    ScanRan =>
        \A i \in 1..Len(opportunities) :
            /\ opportunities[i].buy_exchange # opportunities[i].sell_exchange
            /\ Cardinality(Venues(opportunities[i].pair)) >= 2

\* a scan ran on a store whose only books are two books of one venue and one
\* canonical pair with crossing quotes, and reported nothing
C4_Witness ==
    /\ ScanRan /\ pc = "loop"
    /\ opportunities = <<>>
    /\ Cardinality(DOMAIN books) = 2
    /\ \E k1 \in DOMAIN books : \E k2 \in DOMAIN books :
         /\ k1 # k2
         /\ books[k1].exchange = books[k2].exchange
         /\ SamePair(books[k1], books[k2])
         /\ Valid(books[k1]) /\ Valid(books[k2])
         /\ books[k2].bids[1][1] > AdjustedAsk(books[k1], books[k2])

\* C5: with N = 10, the k-th stored snapshot is followed by a full scan when k is a
\* multiple of 10 and by a targeted scan otherwise.
C5_PeriodicFullScan ==
    /\ COMPREHENSIVE_ANALYSIS_INTERVAL = 10
    /\ ScanRan => (outcome = "full" <=> ingested % 10 = 0)
    /\ ScanRan => (outcome = "targeted" <=> ingested % 10 # 0)

\* the tenth stored snapshot was followed by a full scan
C5_Witness == outcome = "full" /\ ingested = 10 /\ pc = "loop"

\* the store holds, under "<exchange>:<pair>", exactly the last snapshot stored for
\* each (exchange, pair), and nothing else
C6_StoreHoldsLast ==
    /\ \A m \in DOMAIN last :
         /\ BookKey(m[1], m[2]) \in DOMAIN books
         /\ books[BookKey(m[1], m[2])] = last[m]
    /\ \A k \in DOMAIN books :
         /\ k = books[k].exchange \o <<":">> \o books[k].pair
         /\ <<books[k].exchange, books[k].pair>> \in DOMAIN last

\* a step removes no entry and changes no entry but that of the stored snapshot
C6_OthersKept ==
    \A k \in DOMAIN books :
        /\ k \in DOMAIN books'
        /\ (k # updated_key' => books'[k] = books[k])

Descending(opps) ==
    \A i \in 1..(Len(opps) - 1) : opps[i].roi_percentage >= opps[i + 1].roi_percentage

\* C7: the list a full scan returns is in descending order of ROI percentage; the
\* list of a targeted scan, a sublist of it in the same order, is so too.
C7_SortedByRoi == (ScanRan /\ pc = "loop") => Descending(opportunities)

\* a full scan returned two opportunities of different ROI
C7_Witness ==
    /\ outcome = "full" /\ pc = "loop"
    /\ Len(opportunities) >= 2
    /\ opportunities[1].roi_percentage > opportunities[2].roi_percentage

\* the opportunity comes from the quotes of two valid books of the store
Backed(opp) ==
    \E k1 \in DOMAIN books : \E k2 \in DOMAIN books :
        /\ Valid(books[k1]) /\ Valid(books[k2])
        /\ books[k1].exchange = opp.buy_exchange
        /\ books[k2].exchange = opp.sell_exchange
        /\ Canonical(books[k1].pair) = opp.pair
        /\ Canonical(books[k2].pair) = opp.pair
        /\ opp.buy_price = AdjustedAsk(books[k1], books[k2])
        /\ opp.sell_price = books[k2].bids[1][1]

\* C10: a pair of books one of which has no bids or no asks is skipped: the scan
\* completes normally (the loop goes on) and every reported opportunity comes from
\* two books that both have bids and asks.
C10_EmptySideSkipped ==
    ScanRan =>
        /\ pc = "loop"
        /\ \A i \in 1..Len(opportunities) : Backed(opportunities[i])

\* a scan ran over a store that holds a book with an empty side next to a book of
\* the same pair on another venue, and reported an opportunity of the other pairs
C10_Witness ==
    /\ ScanRan /\ pc = "loop"
    /\ opportunities # <<>>
    /\ \E k1 \in DOMAIN books : \E k2 \in DOMAIN books :
         /\ ~Valid(books[k1])
         /\ SamePair(books[k1], books[k2])
         /\ books[k1].exchange # books[k2].exchange
         /\ opportunities[1].pair = Canonical(books[k1].pair)

---------------------------------------------------------------------------
(* Properties of evaluate_opportunity *)

\* C8: an opportunity is returned only with sell price above buy price, a positive
\* size, net profit of at least MIN_ABSOLUTE_PROFIT (1.0 USD) and ROI of at least
\* MIN_ROI_PERCENTAGE (0.1 %), its net profit being the gross profit less the
\* estimated fees; equal buy and sell prices return nothing.
C8_Thresholds ==
    evalOut.done =>
        /\ (evalIn.sell_price = evalIn.buy_price => evalOut.result = <<>>)
        /\ (evalOut.result # <<>> =>
              /\ evalIn.sell_price > evalIn.buy_price
              /\ evalOut.result[1].sell_price > evalOut.result[1].buy_price
              /\ evalOut.result[1].max_size > 0
              /\ evalOut.result[1].net_profit >= 1000000
              /\ evalOut.result[1].roi_percentage >= 1000
              /\ evalOut.result[1].net_profit =
                    (evalIn.sell_price - evalIn.buy_price) * evalOut.result[1].max_size
                        - evalOut.result[1].estimated_fees)

\* an opportunity that meets both thresholds was returned
C8_Witness ==
    /\ evalOut.done
    /\ evalOut.result # <<>>
    /\ evalOut.result[1].net_profit >= 1000000
    /\ evalOut.result[1].roi_percentage >= 1000

\* buy on binance at ask 30,000 (size 1.0), sell on uniswap at bid 30,200 (size 1.0)
ScenarioInput ==
    [ buy_exchange |-> BINANCE, sell_exchange |-> UNISWAP, pair |-> BTC_USDT,
      buy_price |-> Usd(30000), sell_price |-> Usd(30200),
      buy_size |-> Units(1), sell_size |-> Units(1) ]

Near(x, target, tolerance) == target - tolerance <= x /\ x <= target + tolerance

\* C9: with 0.1 % on both venues, no gas and no withdrawal fee, the scenario gives
\* one opportunity of size 0.8 with gross profit 160, fees about 48.16, net profit
\* about 111.84 and ROI about 0.465 %.
C9_Scenario ==
    (evalOut.done /\ evalIn = ScenarioInput /\ fees_config = ScenarioFeesConfig) =>
        /\ evalOut.result # <<>>
        /\ evalOut.result[1].buy_exchange = BINANCE
        /\ evalOut.result[1].sell_exchange = UNISWAP
        /\ evalOut.result[1].max_size = 80
        /\ evalOut.result[1].gross_profit_per_unit * evalOut.result[1].max_size = 160000000
        /\ Near(evalOut.result[1].estimated_fees, 48160000, 10000)
        /\ Near(evalOut.result[1].net_profit, 111840000, 10000)
        /\ Near(evalOut.result[1].roi_percentage, 4650, 50)

---------------------------------------------------------------------------
(* Properties of the targeted scan's filter and of abandoned iterations *)

\* C11: after a targeted scan every reported opportunity is of the canonical pair
\* of the updated book; an opportunity of another canonical pair is never reported.
C11_UpdatedPairOnly ==
    (outcome = "targeted" /\ pc = "loop") =>
        \A i \in 1..Len(opportunities) :
            opportunities[i].pair = Canonical(books[updated_key].pair)

\* the last iteration failed to fetch or to decode its snapshot
FetchOrDecodeFailed == outcome \in {"fetch_err", "decode_err"}

\* a step into a failed fetch or decode leaves the store, the counter and the
\* number of stored snapshots as they were, reports nothing and stays in the loop
C12_NoEffect ==
    FetchOrDecodeFailed' =>
        /\ books' = books
        /\ update_counter' = update_counter
        /\ ingested' = ingested
        /\ opportunities' = <<>>
        /\ updated_key' = <<>>
        /\ pc' = "loop"

\* C12: an iteration whose fetch or decode fails is abandoned without effect: the
\* store is unchanged, no scan is run and the counter is not advanced, so the
\* counter always equals the number of snapshots stored.
C12_FailedIterationNoEffect == [](update_counter = ingested) /\ [][C12_NoEffect]_vars

\* a fetch or decode failed after snapshots were stored, and the store still holds them
C12_Witness ==
    /\ FetchOrDecodeFailed
    /\ pc = "loop"
    /\ update_counter = 9
    /\ Cardinality(DOMAIN books) >= 2

====
